---- MODULE Spec2Model ----
(***************************************************************************)
(* Vegas Tunnel signal engine of the LINE trading-signal worker.           *)
(*                                                                         *)
(* Numbers.  The program computes on IEEE doubles, which round the result   *)
(* of every operation.  Here every price and every EMA value is an integer *)
(* number of price units (one unit is 1/1000 of the quote currency), a     *)
(* factor such as the EMA multiplier is an integer number of 1/2^FracBits, *)
(* and every multiplication and division rounds its result down, once per  *)
(* operation and in the order the code performs them.  The input series    *)
(* move by thousands of units per candle, so the rounding is far below     *)
(* the differences the detector compares on a trending series.  All        *)
(* intermediate values stay below 2^31.                                    *)
(***************************************************************************)
EXTENDS Integers, Sequences, FiniteSets, TLC

\* ------------------------------------------------------------------ bounds
\* series lengths range over MinCandles - 1 .. MinCandles + MaxExtra
MaxExtra == 1
\* a factor is held in units of 1/2^FracBits
FracBits == 19
\* direct calls of calculateEMA take up to MaxLen prices and periods up to
\* MaxPeriod
MaxLen == 3
MaxPeriod == 3
\* direct calls of fetchKlineData ask for up to MaxLimit candles
MaxLimit == 2

\* ------------------------------------------------------- program constants
MinCandles == 676
Period12 == 12
Period144 == 144
Period169 == 169
Period576 == 576
Period676 == 676

\* the null a function returns in place of a value
Null == [null |-> TRUE]

Min(a, b) == IF a <= b THEN a ELSE b
Max(a, b) == IF a >= b THEN a ELSE b

\* --------------------------------------------------------------- EMA
\* prices[lo] + ... + prices[hi], the loop of calculateEMA that sums the
\* seed window (split in halves to keep the evaluation shallow)
RECURSIVE SumRange(_, _, _)
SumRange(prices, lo, hi) ==
    IF lo > hi THEN 0
    ELSE IF lo = hi THEN prices[lo]
    ELSE LET mid == (lo + hi) \div 2
         IN  SumRange(prices, lo, mid) + SumRange(prices, mid + 1, hi)

\* variant: the seed sum is divided by the period, not by the window summed
Seed_DividesByPeriod(prices, period) ==
    LET window == Min(period, Len(prices))
    IN  SumRange(prices, 1, window) \div period

\* ema[0] of calculateEMA: the mean of the first min(period, N) prices
Seed(prices, period) ==
    LET window == Min(period, Len(prices))
    IN  SumRange(prices, 1, window) \div window

\* ------ arithmetic on factors
RECURSIVE Pow2(_)
Pow2(n) == IF n = 0 THEN 1 ELSE 2 * Pow2(n - 1)

\* the factor 1
One == Pow2(FracBits)
\* a price is split in two limbs at Limb so that no product exceeds 2^31
Limb == Pow2(30 - FracBits)

\* price * factor, rounded down to a price unit
Mul(price, factor) ==
    ((price \div Limb) * factor + ((price % Limb) * factor) \div Limb)
        \div (One \div Limb)

\* multiplier = 2 / (period + 1)
Multiplier(period) == (2 * One) \div (period + 1)

\* one pass of the second loop of calculateEMA:
\* (price * multiplier) + (prev * (1 - multiplier))
EmaStep(prev, price, period) ==
    Mul(price, Multiplier(period)) + Mul(prev, One - Multiplier(period))

\* the second loop of calculateEMA run over the indices lo..hi, entered with
\* ema[lo - 1] = prev (split in halves to keep the evaluation shallow)
RECURSIVE EmaRange(_, _, _, _, _)
EmaRange(prices, period, prev, lo, hi) ==
    IF lo > hi THEN prev
    ELSE IF lo = hi THEN EmaStep(prev, prices[lo], period)
    ELSE LET mid == (lo + hi) \div 2
             half == EmaRange(prices, period, prev, lo, mid)
         IN  \* the lower half is a number before the upper half is entered
             CASE half \in Int -> EmaRange(prices, period, half, mid + 1, hi)

\* ema[i] of calculateEMA, indices counted from 1
EmaAt(prices, period, i) ==
    EmaRange(prices, period, Seed(prices, period), 2, i)

\* variant: a period <= 0 hands the prices back
calculateEMA_PassesThrough(prices, period) ==
    IF Len(prices) = 0 THEN << >>
    ELSE IF period <= 0 THEN prices
    ELSE [i \in 1..Len(prices) |-> EmaAt(prices, period, i)]

calculateEMA(prices, period) ==
    IF Len(prices) = 0 \/ period <= 0
    THEN << >>
    ELSE [i \in 1..Len(prices) |-> EmaAt(prices, period, i)]

\* last element of calculateEMA(prices, period), for a non-empty result
LastEMA(prices, period) == EmaAt(prices, period, Len(prices))

\* variant: the snapshot is computed over the opening prices
calculateIndicators_OverOpens(candles) ==
    IF Len(candles) < MinCandles THEN Null
    ELSE LET opens == [i \in 1..Len(candles) |-> candles[i].open]
         IN  [ema12  |-> LastEMA(opens, Period12),
              ema144 |-> LastEMA(opens, Period144),
              ema169 |-> LastEMA(opens, Period169),
              ema576 |-> LastEMA(opens, Period576),
              ema676 |-> LastEMA(opens, Period676)]

calculateIndicators(candles) ==
    IF Len(candles) < MinCandles
    THEN Null
    ELSE LET closes == [i \in 1..Len(candles) |-> candles[i].close]
         IN  [ema12  |-> LastEMA(closes, Period12),
              ema144 |-> LastEMA(closes, Period144),
              ema169 |-> LastEMA(closes, Period169),
              ema576 |-> LastEMA(closes, Period576),
              ema676 |-> LastEMA(closes, Period676)]

\* ------------------------------------------------------------ candle series
Base == 1000000
Step == 1000
Dip == 20000
Wick == 100000
Interval == 60

Shapes == {"up", "down", "flat", "vee"}
Lengths == (MinCandles - 1)..(MinCandles + MaxExtra)

\* the close of every candle of the flat series: a price at which the
\* rounding of the five EMAs leaves them in strictly descending order
Level == Base + 2

\* close of candle i (1-based) of a series of the given shape
TrendClose(shape, i) ==
    CASE shape = "up"   -> Base + Step * i
      [] shape = "down" -> Base + Step * (MinCandles + 24 - i)
      [] shape = "flat" -> Level
      [] shape = "vee"  -> IF i <= 600 THEN Base + Step * i
                           ELSE Base + Step * (1200 - i)

\* An input names a series: a trend of n candles whose newest candle closes
\* off the trend by `off` and carries a wick below, above, or none.
Inputs == [shape : Shapes, n : Lengths, off : {-Dip, 0, Dip},
           wick : {"none", "low", "high"}]

\* candle i of the trend of a shape: it opens where the one before closed
TrendCandle(shape, i) ==
    LET c == TrendClose(shape, i)
        o == IF i = 1 THEN c ELSE TrendClose(shape, i - 1)
    IN  [timestamp |-> Interval * i, open |-> o, close |-> c,
         high |-> Max(o, c), low |-> Min(o, c), volume |-> 1]

\* the newest candle of an input series: candle in.n of the trend, its close
\* moved by in.off and its range stretched by the wick
NewestCandle(in) ==
    LET t == TrendCandle(in.shape, in.n)
        c == t.close + in.off
    IN  [t EXCEPT !.close = c,
                  !.high = Max(t.open, c) + (IF in.wick = "high" THEN Wick ELSE 0),
                  !.low = Min(t.open, c) - (IF in.wick = "low" THEN Wick ELSE 0)]

\* the series of an input, oldest candle first
Candles(in) ==
    [i \in 1..(in.n - 1) |-> TrendCandle(in.shape, i)] \o <<NewestCandle(in)>>

\* calculateIndicators tabulated over the input series: every entry holds
\* the value of the operator, and the table is built once
IndicatorsTable ==
    { [in |-> in, out |-> calculateIndicators(Candles(in))] : in \in Inputs }

IndicatorsOn(in) == (CHOOSE e \in IndicatorsTable : e.in = in).out

\* --------------------------------------------------------------- detector
\* the classification of the snapshot that analyzeSignal stores in longShort
Alignment(indicators) ==
    IF /\ indicators.ema12 > indicators.ema144
       /\ indicators.ema144 > indicators.ema169
       /\ indicators.ema169 > indicators.ema576
       /\ indicators.ema576 > indicators.ema676
    THEN 1
    ELSE IF /\ indicators.ema12 < indicators.ema144
            /\ indicators.ema144 < indicators.ema169
            /\ indicators.ema169 < indicators.ema576
            /\ indicators.ema576 < indicators.ema676
         THEN 2
         ELSE 0

\* The three branches of analyzeSignal on longShort.  Each yields
\* <<signalType, state>>: the signal type and the state field after it.

\* variant: the flag survives a snapshot without alignment
NoneStep_KeepsState(st) == <<"none", st>>

\* longShort = 0
NoneStep(st) == <<"none", 0>>

\* variant: a touch always arms, also when the same candle closes above ema12
BullishStep_NoSingleCandle(st, currentCandle, indicators) ==
    IF st = 0 THEN
        IF currentCandle.low <= indicators.ema144
        THEN <<"none", 1>>
        ELSE <<"none", 0>>
    ELSE IF st = 1 THEN
        IF currentCandle.close >= indicators.ema12
        THEN <<"long", 0>>
        ELSE IF indicators.ema12 <= indicators.ema144
             THEN <<"none", 0>>
             ELSE <<"none", st>>
    ELSE <<"none", st>>

\* variant: the confirming candle must touch ema144 again
BullishStep_ConfirmNeedsTouch(st, currentCandle, indicators) ==
    IF st = 0 THEN
        IF currentCandle.low <= indicators.ema144
              /\ currentCandle.close >= indicators.ema12
        THEN <<"long", 0>>
        ELSE IF currentCandle.low <= indicators.ema144
             THEN <<"none", 1>>
             ELSE <<"none", 0>>
    ELSE IF st = 1 THEN
        IF currentCandle.low <= indicators.ema144
              /\ currentCandle.close >= indicators.ema12
        THEN <<"long", 0>>
        ELSE IF indicators.ema12 <= indicators.ema144
             THEN <<"none", 0>>
             ELSE <<"none", st>>
    ELSE <<"none", st>>

\* variant: an armed instance gives up after one candle without confirmation
BullishStep_DropsArmed(st, currentCandle, indicators) ==
    IF st = 0 THEN
        IF currentCandle.low <= indicators.ema144
              /\ currentCandle.close >= indicators.ema12
        THEN <<"long", 0>>
        ELSE IF currentCandle.low <= indicators.ema144
             THEN <<"none", 1>>
             ELSE <<"none", 0>>
    ELSE IF st = 1 THEN
        IF currentCandle.close >= indicators.ema12
        THEN <<"long", 0>>
        ELSE <<"none", 0>>
    ELSE <<"none", st>>

\* longShort = 1
BullishStep(st, currentCandle, indicators) ==
    IF st = 0 THEN
        IF currentCandle.low <= indicators.ema144
              /\ currentCandle.close >= indicators.ema12
        THEN <<"long", 0>>
        ELSE IF currentCandle.low <= indicators.ema144
             THEN <<"none", 1>>
             ELSE <<"none", 0>>
    ELSE IF st = 1 THEN
        IF currentCandle.close >= indicators.ema12
        THEN <<"long", 0>>
        ELSE IF indicators.ema12 <= indicators.ema144
             THEN <<"none", 0>>
             ELSE <<"none", st>>
    ELSE <<"none", st>>

\* variant: the bearish touch tests the candle's low, as the bullish one does
BearishStep_TouchByLow(st, currentCandle, indicators) ==
    IF st = 0 THEN
        IF currentCandle.low >= indicators.ema144
              /\ currentCandle.close <= indicators.ema12
        THEN <<"short", 0>>
        ELSE IF currentCandle.low >= indicators.ema144
             THEN <<"none", 1>>
             ELSE <<"none", 0>>
    ELSE IF st = 1 THEN
        IF currentCandle.close <= indicators.ema12
        THEN <<"short", 0>>
        ELSE IF indicators.ema12 >= indicators.ema144
             THEN <<"none", 0>>
             ELSE <<"none", st>>
    ELSE <<"none", st>>

\* variant: a short confirmed from the armed state leaves the flag set
BearishStep_ShortStaysArmed(st, currentCandle, indicators) ==
    IF st = 0 THEN
        IF currentCandle.high >= indicators.ema144
              /\ currentCandle.close <= indicators.ema12
        THEN <<"short", 0>>
        ELSE IF currentCandle.high >= indicators.ema144
             THEN <<"none", 1>>
             ELSE <<"none", 0>>
    ELSE IF st = 1 THEN
        IF currentCandle.close <= indicators.ema12
        THEN <<"short", st>>
        ELSE IF indicators.ema12 >= indicators.ema144
             THEN <<"none", 0>>
             ELSE <<"none", st>>
    ELSE <<"none", st>>

\* longShort = 2
BearishStep(st, currentCandle, indicators) ==
    IF st = 0 THEN
        IF currentCandle.high >= indicators.ema144
              /\ currentCandle.close <= indicators.ema12
        THEN <<"short", 0>>
        ELSE IF currentCandle.high >= indicators.ema144
             THEN <<"none", 1>>
             ELSE <<"none", 0>>
    ELSE IF st = 1 THEN
        IF currentCandle.close <= indicators.ema12
        THEN <<"short", 0>>
        ELSE IF indicators.ema12 >= indicators.ema144
             THEN <<"none", 0>>
             ELSE <<"none", st>>
    ELSE <<"none", st>>

\* variant: the signal carries the newest candle's open as its price
Detect_PriceIsOpen(st, candles, indicators) ==
    LET currentCandle == candles[Len(candles)]
        ls2 == Alignment(indicators)
        out == IF ls2 = 0 THEN NoneStep(st)
               ELSE IF ls2 = 1 THEN BullishStep(st, currentCandle, indicators)
               ELSE IF ls2 = 2 THEN BearishStep(st, currentCandle, indicators)
               ELSE <<"none", st>>
    IN  [state |-> out[2], longShort |-> ls2,
         result |-> [type |-> out[1],
                     price |-> currentCandle.open,
                     timestamp |-> currentCandle.timestamp,
                     indicators |-> indicators]]

\* analyzeSignal once the snapshot exists: classify, branch, build the signal
Detect(st, candles, indicators) ==
    LET currentCandle == candles[Len(candles)]
        ls2 == Alignment(indicators)
        out == IF ls2 = 0 THEN NoneStep(st)
               ELSE IF ls2 = 1 THEN BullishStep(st, currentCandle, indicators)
               ELSE IF ls2 = 2 THEN BearishStep(st, currentCandle, indicators)
               ELSE <<"none", st>>
    IN  [state |-> out[2], longShort |-> ls2,
         result |-> [type |-> out[1],
                     price |-> currentCandle.close,
                     timestamp |-> currentCandle.timestamp,
                     indicators |-> indicators]]

\* variant: a call without enough candles puts the instance back to idle
analyzeSignal_ResetsOnShortSeries(st, ls, in) ==
    LET candles == Candles(in) IN
    IF Len(candles) < MinCandles
    THEN [state |-> 0, longShort |-> 0, result |-> Null]
    ELSE
    LET indicators == IndicatorsOn(in) IN
    IF indicators = Null
    THEN [state |-> 0, longShort |-> 0, result |-> Null]
    ELSE Detect(st, candles, indicators)

\* VegasTunnel.analyzeSignal(candles) on an instance whose fields are st
\* (state) and ls (longShort), for the series of input `in`: the fields
\* after the call and the value returned.  Its call
\* calculateIndicators(candles) is read off IndicatorsTable.
analyzeSignal(st, ls, in) ==
    LET candles == Candles(in) IN
    IF Len(candles) < MinCandles
    THEN [state |-> st, longShort |-> ls, result |-> Null]
    ELSE
    LET indicators == IndicatorsOn(in) IN
    IF indicators = Null
    THEN [state |-> st, longShort |-> ls, result |-> Null]
    ELSE Detect(st, candles, indicators)


\* analyzeSignal tabulated over the input series and the instance fields:
\* out[st + 1][ls + 1] holds the value of analyzeSignal(st, ls, in), and the
\* table is built once
AnalyzeSignalTable ==
    { [in |-> in,
       out |-> << <<analyzeSignal(0, 0, in), analyzeSignal(0, 1, in),
                    analyzeSignal(0, 2, in)>>,
                  <<analyzeSignal(1, 0, in), analyzeSignal(1, 1, in),
                    analyzeSignal(1, 2, in)>> >>] : in \in Inputs }

AnalyzeSignalOn(st, ls, in) ==
    (CHOOSE e \in AnalyzeSignalTable : e.in = in).out[st + 1][ls + 1]

\* ------------------------------------------------------- target projector
Abs(x) == IF x < 0 THEN -x ELSE x

\* An optional number is << >> when the argument is not supplied and <<v>>
\* when it is.  Truthy is the test `x ?` of the source on such an argument:
\* false for a missing argument and for 0.
Truthy(opt) == opt # << >> /\ opt[1] # 0

\* variant: the short branch adds the range as the long branch does
calculateFibonacciTargets_ShortAdds(entryPrice, direction, swingHigh, swingLow) ==
    LET baseRange == IF Truthy(swingHigh) /\ Truthy(swingLow)
                     THEN Abs(swingHigh[1] - swingLow[1])
                     ELSE (entryPrice * 5) \div 100
    IN  [target1 |-> entryPrice + baseRange,
         target2 |-> entryPrice + (baseRange * 1618) \div 1000,
         target3 |-> entryPrice + baseRange * 2]

\* calculateFibonacciTargets; the multipliers 1.0, 1.618 and 2.0 and the
\* default 5% are applied in price units, rounding down
calculateFibonacciTargets(entryPrice, direction, swingHigh, swingLow) ==
    LET baseRange == IF Truthy(swingHigh) /\ Truthy(swingLow)
                     THEN Abs(swingHigh[1] - swingLow[1])
                     ELSE (entryPrice * 5) \div 100
    IN  IF direction = "long"
        THEN [target1 |-> entryPrice + baseRange,
              target2 |-> entryPrice + (baseRange * 1618) \div 1000,
              target3 |-> entryPrice + baseRange * 2]
        ELSE [target1 |-> entryPrice - baseRange,
              target2 |-> entryPrice - (baseRange * 1618) \div 1000,
              target3 |-> entryPrice - baseRange * 2]

\* ------------------------------------------------------------ analyzeSymbol
SwingWindow == 50
DefaultLeverage == 10

\* the symbols the scheduled handler walks through, in its order
ScheduledSymbols == <<"BTC", "ETH", "BNB", "SOL">>

\* the keys of SYMBOL_MAPPING
SupportedSymbols ==
    {"BTC", "ETH", "BNB", "SOL", "ADA", "XRP", "DOT", "DOGE", "AVAX", "LINK"}

\* symbol strings a request may carry besides none at all
RequestSymbols == {"ethusdt", "XYZ"}
Absent == "(absent)"

\* normalizeSymbol: upper case, a trailing USDT or USD removed; given here
\* on the symbol strings of the model
normalizeSymbol(symbol) ==
    CASE symbol = "ethusdt" -> "ETH"
      [] OTHER -> symbol

\* Math.max over the highs, Math.min over the lows of candles[lo..hi]
MaxHigh(candles, lo, hi) ==
    LET highs == {candles[i].high : i \in lo..hi}
    IN  CHOOSE m \in highs : \A h \in highs : h <= m

MinLow(candles, lo, hi) ==
    LET lows == {candles[i].low : i \in lo..hi}
    IN  CHOOSE m \in lows : \A l \in lows : m <= l

\* variant: the extremes are taken over the whole series
Swing_WholeSeries(candles) ==
    [high |-> MaxHigh(candles, 1, Len(candles)),
     low  |-> MinLow(candles, 1, Len(candles))]

\* swingHigh and swingLow of analyzeSymbol: the extremes of candles.slice(-50)
Swing(candles) ==
    LET from == Max(1, Len(candles) - SwingWindow + 1)
    IN  [high |-> MaxHigh(candles, from, Len(candles)),
         low  |-> MinLow(candles, from, Len(candles))]

\* Swing tabulated over the input series
SwingTable == { [in |-> in, out |-> Swing(Candles(in))] : in \in Inputs }

SwingOn(in) == (CHOOSE e \in SwingTable : e.in = in).out

\* what fetchKlineData gives when both sources fail: it throws
FetchFailed == [failed |-> TRUE]

\* the series fetchKlineData may return to the worker
FetchedInputs ==
    {in \in Inputs :
        \/ in.n = MinCandles /\ in.shape # "flat" /\ in.off <= 0
        \/ in.n < MinCandles /\ in.off = 0 /\ in.wick = "none"}

\* the tail of analyzeSymbol once the detector has emitted vegasSignal: the
\* call of calculateFibonacciTargets on the swing extremes and the
\* TradingSignal built from its answer
BuildSignal(normalizedSymbol, timeframe, leverage, vegasSignal, swing) ==
    [vegasSignal |-> vegasSignal,
     projection |-> [entryPrice |-> vegasSignal.price,
                     direction |-> vegasSignal.type,
                     swingHigh |-> <<swing.high>>,
                     swingLow |-> <<swing.low>>],
     signal |-> [symbol |-> normalizedSymbol,
                 direction |-> vegasSignal.type,
                 timeframe |-> timeframe,
                 leverage |-> leverage,
                 entryPrice |-> vegasSignal.price,
                 targets |-> calculateFibonacciTargets(
                                 vegasSignal.price, vegasSignal.type,
                                 <<swing.high>>, <<swing.low>>),
                 timestamp |-> vegasSignal.timestamp]]

\* analyzeSymbol returning null after the detector answered vegasSignal
NoSignal(vegasSignal) ==
    [vegasSignal |-> vegasSignal, projection |-> Null, signal |-> Null]

\* variant: only a missing detector result stops analyzeSymbol, not a none
AfterDetector_ForwardsNone(normalizedSymbol, timeframe, leverage, vegasSignal, swing) ==
    IF vegasSignal = Null
    THEN NoSignal(vegasSignal)
    ELSE BuildSignal(normalizedSymbol, timeframe, leverage, vegasSignal, swing)

\* analyzeSymbol from the test `!vegasSignal || vegasSignal.type === 'none'` on
AfterDetector(normalizedSymbol, timeframe, leverage, vegasSignal, swing) ==
    IF vegasSignal = Null \/ vegasSignal.type = "none"
    THEN NoSignal(vegasSignal)
    ELSE BuildSignal(normalizedSymbol, timeframe, leverage, vegasSignal, swing)

\* analyzeSymbol(symbol, timeframe, leverage) where fetchKlineData answers
\* `fetched`: the TradingSignal returned (signal, Null for null), what the
\* fresh detector returned (vegasSignal) and the arguments of the call of
\* calculateFibonacciTargets it made (projection, Null when it made none).
\* Every throw inside ends in the catch that returns null.
analyzeSymbol(symbol, timeframe, leverage, fetched) ==
    IF normalizeSymbol(symbol) \notin SupportedSymbols THEN NoSignal(Null)
    ELSE IF fetched = FetchFailed THEN NoSignal(Null)
    ELSE \* new VegasTunnel(): state = 0, longShort = 0
         AfterDetector(normalizeSymbol(symbol), timeframe, leverage,
                       AnalyzeSignalOn(0, 0, fetched).result, SwingOn(fetched))

\* ------------------------------------------------- reading an input series
\* ema12 > ema144 > ema169 > ema576 > ema676
StrictlyDescending(ind) ==
    ind.ema12 > ind.ema144 /\ ind.ema144 > ind.ema169
        /\ ind.ema169 > ind.ema576 /\ ind.ema576 > ind.ema676

\* ema12 < ema144 < ema169 < ema576 < ema676
StrictlyAscending(ind) ==
    ind.ema12 < ind.ema144 /\ ind.ema144 < ind.ema169
        /\ ind.ema169 < ind.ema576 /\ ind.ema576 < ind.ema676

Sufficient(in) == in.n >= MinCandles
BullishIn(in) == Sufficient(in) /\ StrictlyDescending(IndicatorsOn(in))
BearishIn(in) == Sufficient(in) /\ StrictlyAscending(IndicatorsOn(in))
UnorderedIn(in) == Sufficient(in) /\ ~BullishIn(in) /\ ~BearishIn(in)

\* the newest candle reaches the inner band from the trend side
TouchLow(in)  == NewestCandle(in).low <= IndicatorsOn(in).ema144
TouchHigh(in) == NewestCandle(in).high >= IndicatorsOn(in).ema144
\* the newest candle closes on the trend side of the fast line
CloseAbove(in) == NewestCandle(in).close >= IndicatorsOn(in).ema12
CloseBelow(in) == NewestCandle(in).close <= IndicatorsOn(in).ema12

\* ------------------------------------------------------------------ state
VARIABLES
    state,      \* VegasTunnel.state: 0 idle, 1 waiting for the confirming close
    longShort,  \* VegasTunnel.longShort: 0 none, 1 bullish, 2 bearish
    call,       \* the latest analyzeSignal call on the instance: its input, the
                \* fields before it and the value returned (Null before any call)
    armedUnder, \* history: what the call that last set state to 1 observed,
                \* 1 a touch of ema144 from above under bullish alignment,
                \* 2 a touch from below under bearish alignment (0 while idle)
    cursor,     \* the scheduled handler's place in its loop: the index of the
                \* symbol it analyzes next, 0 when no run is under way
    evaluation, \* the latest analyzeSymbol evaluation of the worker, with the
                \* sendTradingSignal call and the response it led to (Null
                \* before any)
    targetsCall, \* the latest direct call of calculateFibonacciTargets: its
                \* arguments and the targets returned (Null before any)
    emaCall,    \* the latest direct call of calculateEMA: its arguments, the
                \* array returned and the prices array after the call
    emaFirst,   \* the first direct call of calculateEMA, kept to compare
                \* later calls against (Null before any)
    indicatorsCall, \* the latest direct call of calculateIndicators: the
                \* series it was given and the snapshot returned
    other,      \* the fields state and longShort of a second VegasTunnel
                \* instance
    alone,      \* history: the fields the first instance would hold had its
                \* own calls been the only ones made
    run,        \* history of the scheduled run under way, or of the last one
                \* when none is: the symbols it has passed to analyzeSymbol,
                \* in order, and whether one of them failed (its candles
                \* could not be fetched, or a push of its signal was rejected)
    evals,      \* the evaluations in flight in the isolate, one per slot:
                \* where each stands (idle, fetching its candles, done) and,
                \* once its analyzeSignal call has run, the detector fields
                \* the call read and left and the value it returned
    activeChatIds, \* LineBot.activeChatIds, the static set of chat ids
    cacheLoaded,   \* LineBot.cacheLoaded
    kv,         \* what CHAT_STORAGE holds under the key 'activeChatIds':
                \* << >> when the key is absent, <<ids>> for a stored list
    puts,       \* the kv.put calls of saveChatIds under way: the list each
                \* one carries
    tasks,      \* the invocations that use the LineBot, one per slot: a
                \* webhook request, a sendTradingSignal to all chats or to
                \* one chat, with the place each has reached
    added,      \* history: the chat ids addActiveChatId has added to the set
                \* and to which no push of a broadcast has failed since
    fetchCall   \* the latest direct call of fetchKlineData: its arguments,
                \* the place it has reached, what each source answered and
                \* what it returned

vars == <<state, longShort, call, armedUnder, cursor, evaluation,
          targetsCall, emaCall, emaFirst, indicatorsCall, other, alone, run,
          evals, activeChatIds, cacheLoaded, kv, puts, tasks, added,
          fetchCall>>
detectorVars == <<state, longShort, call, armedUnder, other, alone>>
workerVars == <<cursor, evaluation, run>>
libraryVars == <<targetsCall, emaCall, emaFirst, indicatorsCall, fetchCall>>
botVars == <<activeChatIds, cacheLoaded, kv, puts, tasks, added>>
isolateVars == <<evals, botVars>>

\* the slots of invocations that use the LineBot at once
BotSlots == {"t1", "t2"}
\* kv.get answers null
NoValue == << >>

\* the slots of evaluations in flight at once
EvalSlots == {"e1", "e2"}

InitWith(stored) ==
    /\ state = 0
    /\ longShort = 0
    /\ call = Null
    /\ armedUnder = 0
    /\ cursor = 0
    /\ evaluation = Null
    /\ targetsCall = Null
    /\ emaCall = Null
    /\ emaFirst = Null
    /\ indicatorsCall = Null
    /\ other = [state |-> 0, longShort |-> 0]
    /\ alone = [state |-> 0, longShort |-> 0]
    /\ run = [symbols |-> << >>, failed |-> FALSE]
    /\ evals = [e \in EvalSlots |-> [pc |-> "idle"]]
    /\ activeChatIds = {}
    /\ cacheLoaded = FALSE
    /\ kv = stored
    /\ puts = {}
    /\ tasks = [t \in BotSlots |-> [kind |-> "idle", pc |-> "idle"]]
    /\ added = {}
    /\ fetchCall = Null

\* a fresh isolate over an empty store
Init == InitWith(NoValue)

\* one analyzeSignal call on a detector instance that lives across calls
AnalyzeSignal ==
    /\ \E in \in Inputs :
        LET r == AnalyzeSignalOn(state, longShort, in) IN
        /\ state' = r.state
        /\ longShort' = r.longShort
        /\ call' = [in |-> in, preState |-> state, preLongShort |-> longShort,
                    preArmedUnder |-> armedUnder, result |-> r.result,
                    aloneResult |->
                        AnalyzeSignalOn(alone.state, alone.longShort, in).result]
        /\ alone' = [state |-> AnalyzeSignalOn(alone.state, alone.longShort, in).state,
                     longShort |->
                        AnalyzeSignalOn(alone.state, alone.longShort, in).longShort]
        /\ armedUnder' =
              IF r.state = 0 THEN 0
              ELSE IF state = 1 THEN armedUnder
              ELSE IF BullishIn(in) /\ TouchLow(in) THEN 1
              ELSE IF BearishIn(in) /\ TouchHigh(in) THEN 2
              ELSE 0
    /\ UNCHANGED <<isolateVars, workerVars, libraryVars, other>>

Next == AnalyzeSignal

\* the detector class driven call after call on one instance
Spec == Init /\ [][Next]_vars

\* the series the second instance is called on
OtherInputs == {in \in Inputs : in.n = MinCandles}

\* variant: state and longShort are static, one pair for all instances, so a
\* call on the second instance writes the fields the first one reads
AnalyzeSignalOther_SharedFields ==
    /\ \E in \in OtherInputs :
        /\ state' = AnalyzeSignalOn(state, longShort, in).state
        /\ longShort' = AnalyzeSignalOn(state, longShort, in).longShort
        /\ other' = [state |-> AnalyzeSignalOn(state, longShort, in).state,
                     longShort |-> AnalyzeSignalOn(state, longShort, in).longShort]
    /\ UNCHANGED <<isolateVars, call, armedUnder, alone, workerVars, libraryVars>>

\* one analyzeSignal call on the second instance: it reads and writes its
\* own fields
AnalyzeSignalOther ==
    /\ \E in \in OtherInputs :
        other' = [state |-> AnalyzeSignalOn(other.state, other.longShort, in).state,
                  longShort |->
                     AnalyzeSignalOn(other.state, other.longShort, in).longShort]
    /\ UNCHANGED <<isolateVars, state, longShort, call, armedUnder, alone,
                   workerVars, libraryVars>>

NextInstances == AnalyzeSignal \/ AnalyzeSignalOther

\* two detector instances, their calls interleaved in any order
SpecInstances == Init /\ [][NextInstances]_vars

\* ----------------------------------------------------------------- worker
\* the cron trigger fires: scheduled() enters its loop
ScheduledStart ==
    /\ cursor = 0
    /\ cursor' = 1
    /\ run' = [symbols |-> << >>, failed |-> FALSE]
    /\ UNCHANGED <<isolateVars, evaluation, detectorVars, libraryVars>>

\* what one pass of the loop of scheduled() leaves: the result r of
\* analyzeSymbol and, when a signal came back, the sendTradingSignal(signal)
\* to all chats, which returns normally also when pushes were rejected
\* (rejected tells whether one was)
ScheduledEvaluation(symbol, fetched, r, rejected) ==
    [by |-> "scheduled",
     key |-> <<normalizeSymbol(symbol), "1h">>,
     fetched |-> fetched,
     vegasSignal |-> r.vegasSignal,
     projection |-> r.projection,
     signal |-> r.signal,
     sent |-> IF r.signal # Null
              THEN [signal |-> r.signal, to |-> Absent, ok |-> TRUE,
                    rejected |-> rejected]
              ELSE Null,
     response |-> Null]

\* whether the pass of the loop that left evaluation e met a failure
PassFailed(e) ==
    e.fetched = FetchFailed \/ (e.sent # Null /\ e.sent.rejected)

\* variant: a failing pass ends the run, as without the try inside the loop
ScheduledSymbol_StopsOnFailure ==
    /\ cursor \in 1..Len(ScheduledSymbols)
    /\ \E fetched \in FetchedInputs \cup {FetchFailed}, rejected \in BOOLEAN :
        /\ evaluation' =
              ScheduledEvaluation(
                  ScheduledSymbols[cursor], fetched,
                  analyzeSymbol(ScheduledSymbols[cursor], "1h", DefaultLeverage,
                                fetched),
                  rejected)
        /\ run' = [symbols |-> Append(run.symbols, ScheduledSymbols[cursor]),
                   failed |-> run.failed \/ PassFailed(evaluation')]
        /\ cursor' = IF cursor = Len(ScheduledSymbols) \/ PassFailed(evaluation')
                     THEN 0 ELSE cursor + 1
    /\ UNCHANGED <<isolateVars, detectorVars, libraryVars>>

\* one pass of the loop of scheduled(): analyzeSymbol(symbol), then
\* sendTradingSignal(signal) to all chats when a signal came back
ScheduledSymbol ==
    /\ cursor \in 1..Len(ScheduledSymbols)
    /\ \E fetched \in FetchedInputs \cup {FetchFailed}, rejected \in BOOLEAN :
        /\ evaluation' =
              ScheduledEvaluation(
                  ScheduledSymbols[cursor], fetched,
                  analyzeSymbol(ScheduledSymbols[cursor], "1h", DefaultLeverage,
                                fetched),
                  rejected)
        /\ run' = [symbols |-> Append(run.symbols, ScheduledSymbols[cursor]),
                   failed |-> run.failed \/ PassFailed(evaluation')]
    /\ cursor' = IF cursor = Len(ScheduledSymbols) THEN 0 ELSE cursor + 1
    /\ UNCHANGED <<isolateVars, detectorVars, libraryVars>>

\* variant: /analyze answers a failure inside analyzeSymbol with an error
\* status
AnalyzeEvaluation_FailureIsError(symbol, timeframe, userId, fetched, ok, r) ==
    [by |-> "analyze",
     key |-> <<normalizeSymbol(symbol), timeframe>>,
     fetched |-> fetched,
     vegasSignal |-> r.vegasSignal,
     projection |-> r.projection,
     signal |-> r.signal,
     sent |-> IF r.signal # Null /\ userId # Absent
              THEN [signal |-> r.signal, to |-> userId, ok |-> ok]
              ELSE Null,
     response |-> IF r.signal = Null
                  THEN IF normalizeSymbol(symbol) \notin SupportedSymbols
                          \/ fetched = FetchFailed
                       THEN [status |-> 500, success |-> FALSE]
                       ELSE [status |-> 200, success |-> FALSE]
                  ELSE IF userId = Absent \/ ok
                  THEN [status |-> 200, success |-> TRUE]
                  ELSE [status |-> 500, success |-> FALSE]]

\* what handleAnalyzeRequest leaves once analyzeSymbol returned r: no signal
\* answers success false; a signal is pushed to userId when one was given
\* (ok tells whether the push went through) and answers success true, or
\* status 500 when sendTradingSignal threw
AnalyzeEvaluation(symbol, timeframe, userId, fetched, ok, r) ==
    [by |-> "analyze",
     key |-> <<normalizeSymbol(symbol), timeframe>>,
     fetched |-> fetched,
     vegasSignal |-> r.vegasSignal,
     projection |-> r.projection,
     signal |-> r.signal,
     sent |-> IF r.signal # Null /\ userId # Absent
              THEN [signal |-> r.signal, to |-> userId, ok |-> ok]
              ELSE Null,
     response |-> IF r.signal = Null THEN [status |-> 200, success |-> FALSE]
                  ELSE IF userId = Absent \/ ok
                  THEN [status |-> 200, success |-> TRUE]
                  ELSE [status |-> 500, success |-> FALSE]]

\* the body fields of a request, with the defaults of handleAnalyzeRequest
SymbolOf(bodySymbol) == IF bodySymbol = Absent THEN "BTC" ELSE bodySymbol
TimeframeOf(bodyTimeframe) ==
    IF bodyTimeframe = Absent THEN "1h" ELSE bodyTimeframe

\* handleAnalyzeRequest: POST /analyze with an optional symbol, timeframe and
\* userId; the signal goes to that user only, and a push that fails makes
\* sendTradingSignal throw, which the handler answers with status 500
HandleAnalyzeRequest ==
    /\ \E bodySymbol \in RequestSymbols \cup {Absent},
          bodyTimeframe \in {"4h", Absent},
          userId \in {"U1", Absent},
          fetched \in FetchedInputs \cup {FetchFailed},
          ok \in BOOLEAN :
        evaluation' =
            AnalyzeEvaluation(
                SymbolOf(bodySymbol), TimeframeOf(bodyTimeframe), userId,
                fetched, ok,
                analyzeSymbol(SymbolOf(bodySymbol), TimeframeOf(bodyTimeframe),
                              DefaultLeverage, fetched))
    /\ UNCHANGED <<isolateVars, cursor, run, detectorVars, libraryVars>>

NextWorker == ScheduledStart \/ ScheduledSymbol \/ HandleAnalyzeRequest

\* the worker: scheduled runs and /analyze requests
SpecWorker == Init /\ [][NextWorker]_vars

\* ------------------------------------------- evaluations in flight at once
\* An isolate runs one piece of JavaScript at a time and changes to another
\* invocation only where the running one awaits.  analyzeSymbol and
\* calculateTriggerPrice await fetchKlineData and then run, without another
\* await, from `new VegasTunnel()` to the end of analyzeSignal.

\* the callers of an evaluation: scheduled() and handleAnalyzeRequest through
\* analyzeSymbol, handleTriggerPriceRequest and a webhook price query through
\* calculateTriggerPrice
Callers == {"scheduled", "analyze", "trigger-price"}

\* the series fetchKlineData hands to evaluations in flight at once
ConcurrentInputs ==
    {in \in FetchedInputs : in.shape = "up" /\ in.n = MinCandles}

\* an invocation reaches `await fetchKlineData(...)` for a pair
EvaluationStart(e) ==
    /\ evals[e].pc \in {"idle", "done"}
    /\ \E by \in Callers, symbol \in {"BTC", "ETH"} :
        evals' = [evals EXCEPT ![e] =
                    [pc |-> "fetching", by |-> by,
                     key |-> <<normalizeSymbol(symbol), "1h">>]]
    /\ UNCHANGED <<detectorVars, workerVars, libraryVars, botVars>>

\* the evaluation as it stands once analyzeSignal has returned r on a
\* detector whose fields were st and ls
Analyzed(e, fetched, st, ls, r) ==
    [pc |-> "done", by |-> evals[e].by, key |-> evals[e].key,
     fetched |-> fetched,
     overlapped |-> \E f \in EvalSlots \ {e} :
                       evals[f].pc = "fetching" /\ evals[f].key = evals[e].key,
     read |-> [state |-> st, longShort |-> ls],
     left |-> [state |-> r.state, longShort |-> r.longShort],
     vegasSignal |-> r.result]

\* variant: one detector serves every evaluation, its fields read and
\* written by each call
EvaluationAnalyze_SharedDetector(e) ==
    /\ evals[e].pc = "fetching"
    /\ \E fetched \in ConcurrentInputs :
        /\ evals' = [evals EXCEPT ![e] =
                        Analyzed(e, fetched, state, longShort,
                                 AnalyzeSignalOn(state, longShort, fetched))]
        /\ state' = evals'[e].left.state
        /\ longShort' = evals'[e].left.longShort
    /\ UNCHANGED <<call, armedUnder, other, alone, workerVars, libraryVars,
                   botVars>>

\* fetchKlineData resolves and the invocation runs on: new VegasTunnel(),
\* whose fields are 0 and 0, then analyzeSignal(candles) on it
EvaluationAnalyze(e) ==
    /\ evals[e].pc = "fetching"
    /\ \E fetched \in ConcurrentInputs :
        evals' = [evals EXCEPT ![e] =
                    Analyzed(e, fetched, 0, 0, AnalyzeSignalOn(0, 0, fetched))]
    /\ UNCHANGED <<detectorVars, workerVars, libraryVars, botVars>>

NextEvaluations ==
    \E e \in EvalSlots : EvaluationStart(e) \/ EvaluationAnalyze(e)

\* evaluations of scheduled runs and requests, interleaved at their awaits
SpecEvaluations == Init /\ [][NextEvaluations]_vars

\* ---------------------------------------------------------------- LineBot
\* The chats of the model: G1, a group whose id an earlier isolate may have
\* stored, and U1, the user whose message a webhook request carries.
StoredAtStart == {NoValue, <<{"G1"}>>}
EventChat == "U1"
EventBody == "message event of U1"

\* HMAC-SHA256 of a body under a key, base64: one value per body and key
Hmac(body, secret) == [mac |-> "HMAC-SHA256", key |-> secret, body |-> body]
\* request.headers.get('x-line-signature') answers null
NoHeader == [mac |-> "(no header)"]
ChannelSecret == "LINE_CHANNEL_SECRET"
\* the header values a request may carry: none, the signature of its body,
\* one made with another key, one of another body
Signatures ==
    {NoHeader, Hmac(EventBody, ChannelSecret), Hmac(EventBody, "guessed"),
     Hmac("another body", ChannelSecret)}

\* LineBot.verifySignature(body, signature)
verifySignature(body, signature) == signature = Hmac(body, ChannelSecret)

\* handleLineWebhook up to JSON.parse: the status it answers with at once,
\* or 0 when it goes on to the events of the request
Gate(nodeEnv, body, signature) ==
    IF nodeEnv = "development" THEN 0
    ELSE IF signature = NoHeader THEN 400
    ELSE IF ~verifySignature(body, signature) THEN 403
    ELSE 0

\* where an invocation goes on once loadChatIds has returned
AfterLoad(task) ==
    [task EXCEPT !.pc = IF task.kind = "webhook" THEN "add" ELSE "push"]

\* loadChatIds up to its await, as every invocation begins: it returns at
\* once when the cache is loaded, else it calls kv.get('activeChatIds')
LoadStart(task) ==
    IF cacheLoaded THEN AfterLoad(task) ELSE [task EXCEPT !.pc = "loading"]

\* a slot is free once its invocation has answered, returned or thrown
Free(t) == tasks[t].pc \in {"idle", "answered", "returned", "threw"}

\* POST /webhook with one event that has a replyToken: the signature gate,
\* then handleWebhookEvent, which starts with addActiveChatId and so with
\* `await this.loadChatIds()`
WebhookArrives(t) ==
    /\ Free(t)
    /\ \E nodeEnv \in {"production", "development"}, signature \in Signatures :
        tasks' = [tasks EXCEPT ![t] =
                    IF Gate(nodeEnv, EventBody, signature) = 0
                    THEN LoadStart([kind |-> "webhook", pc |-> "load",
                                    nodeEnv |-> nodeEnv,
                                    signature |-> signature])
                    ELSE [kind |-> "webhook", pc |-> "answered",
                          nodeEnv |-> nodeEnv, signature |-> signature,
                          status |-> Gate(nodeEnv, EventBody, signature)]]
    /\ UNCHANGED <<activeChatIds, cacheLoaded, kv, puts, added>>
    /\ UNCHANGED <<detectorVars, workerVars, libraryVars, evals>>

\* sendTradingSignal(signal) of a scheduled run: to all chats
BroadcastArrives(t) ==
    /\ Free(t)
    /\ tasks' = [tasks EXCEPT ![t] =
                   LoadStart([kind |-> "broadcast", pc |-> "load"])]
    /\ UNCHANGED <<activeChatIds, cacheLoaded, kv, puts, added>>
    /\ UNCHANGED <<detectorVars, workerVars, libraryVars, evals>>

\* sendTradingSignal(signal, userId) of an /analyze request: to one chat
SendArrives(t) ==
    /\ Free(t)
    /\ tasks' = [tasks EXCEPT ![t] =
                   LoadStart([kind |-> "send", pc |-> "load",
                              to |-> EventChat])]
    /\ UNCHANGED <<activeChatIds, cacheLoaded, kv, puts, added>>
    /\ UNCHANGED <<detectorVars, workerVars, libraryVars, evals>>

\* kv.get resolves: a stored list replaces the static set and the cache
\* counts as loaded; when kv.get rejects, the catch leaves both as they were
LoadDone(t) ==
    /\ tasks[t].pc = "loading"
    /\ \E ok \in BOOLEAN :
        /\ activeChatIds' = IF ok /\ kv # NoValue THEN kv[1]
                            ELSE activeChatIds
        /\ cacheLoaded' = (ok \/ cacheLoaded)
    /\ tasks' = [tasks EXCEPT ![t] = AfterLoad(tasks[t])]
    /\ UNCHANGED <<kv, puts, added>>
    /\ UNCHANGED <<detectorVars, workerVars, libraryVars, evals>>

\* addActiveChatId after the load: a chat id not in the set is added and
\* saveChatIds is started, not awaited, with the set as it then is.  The
\* replies that follow touch neither the set nor the store and are left
\* out: the request is answered 200
AddChatId(t) ==
    /\ tasks[t].kind = "webhook" /\ tasks[t].pc = "add"
    /\ activeChatIds' = activeChatIds \cup {EventChat}
    /\ puts' = IF EventChat \in activeChatIds THEN puts
               ELSE puts \cup {activeChatIds'}
    /\ added' = IF EventChat \in activeChatIds THEN added
                ELSE added \cup {EventChat}
    /\ tasks' = [tasks EXCEPT ![t] =
                   [kind |-> "webhook", pc |-> "answered", status |-> 200]]
    /\ UNCHANGED <<cacheLoaded, kv>>
    /\ UNCHANGED <<detectorVars, workerVars, libraryVars, evals>>

\* sendTradingSignal to all chats after the load: one pushMessage for every
\* id in the set as it is now
BroadcastPush(t) ==
    /\ tasks[t].kind = "broadcast" /\ tasks[t].pc = "push"
    /\ tasks' = [tasks EXCEPT ![t] =
                   [kind |-> "broadcast", pc |-> "pushing",
                    targets |-> activeChatIds]]
    /\ UNCHANGED <<activeChatIds, cacheLoaded, kv, puts, added>>
    /\ UNCHANGED <<detectorVars, workerVars, libraryVars, evals>>

\* the pushes settle: the catch of each rejected one notes its chat id
PushesSettle(t) ==
    /\ tasks[t].kind = "broadcast" /\ tasks[t].pc = "pushing"
    /\ \E failedChatIds \in SUBSET tasks[t].targets :
        tasks' = [tasks EXCEPT ![t] =
                    [kind |-> "broadcast", pc |-> "settled",
                     targets |-> tasks[t].targets,
                     failedChatIds |-> failedChatIds]]
    /\ UNCHANGED <<activeChatIds, cacheLoaded, kv, puts, added>>
    /\ UNCHANGED <<detectorVars, workerVars, libraryVars, evals>>

\* variant: one rejected push empties the set
BroadcastFinish_DropsAll(t) ==
    /\ tasks[t].kind = "broadcast" /\ tasks[t].pc = "settled"
    /\ activeChatIds' = IF tasks[t].failedChatIds = {} THEN activeChatIds
                        ELSE {}
    /\ puts' = IF tasks[t].failedChatIds = {} THEN puts
               ELSE puts \cup {activeChatIds'}
    /\ added' = added \ tasks[t].failedChatIds
    /\ tasks' = [tasks EXCEPT ![t] =
                   [kind |-> "broadcast", pc |-> "returned",
                    removed |-> tasks[t].failedChatIds]]
    /\ UNCHANGED <<cacheLoaded, kv>>
    /\ UNCHANGED <<detectorVars, workerVars, libraryVars, evals>>

\* after Promise.allSettled: the noted ids are deleted from the set and, when
\* there were any, saveChatIds is started, not awaited; the call returns
BroadcastFinish(t) ==
    /\ tasks[t].kind = "broadcast" /\ tasks[t].pc = "settled"
    /\ activeChatIds' = activeChatIds \ tasks[t].failedChatIds
    /\ puts' = IF tasks[t].failedChatIds = {} THEN puts
               ELSE puts \cup {activeChatIds'}
    /\ added' = added \ tasks[t].failedChatIds
    /\ tasks' = [tasks EXCEPT ![t] =
                   [kind |-> "broadcast", pc |-> "returned",
                    removed |-> tasks[t].failedChatIds]]
    /\ UNCHANGED <<cacheLoaded, kv>>
    /\ UNCHANGED <<detectorVars, workerVars, libraryVars, evals>>

\* sendTradingSignal to one chat after the load: `await pushMessage`; a
\* rejected push is thrown on to the caller
SendPush(t) ==
    /\ tasks[t].kind = "send" /\ tasks[t].pc = "push"
    /\ \E ok \in BOOLEAN :
        tasks' = [tasks EXCEPT ![t] =
                    [kind |-> "send", pc |-> IF ok THEN "returned" ELSE "threw",
                     to |-> tasks[t].to, pushed |-> {tasks[t].to}, ok |-> ok]]
    /\ UNCHANGED <<activeChatIds, cacheLoaded, kv, puts, added>>
    /\ UNCHANGED <<detectorVars, workerVars, libraryVars, evals>>

\* a kv.put of saveChatIds completes: the store holds the list it carried
PutDone ==
    /\ \E chatIds \in puts :
        /\ kv' = <<chatIds>>
        /\ puts' = puts \ {chatIds}
    /\ UNCHANGED <<activeChatIds, cacheLoaded, tasks, added>>
    /\ UNCHANGED <<detectorVars, workerVars, libraryVars, evals>>

NextBot ==
    \/ \E t \in BotSlots :
          \/ WebhookArrives(t) \/ BroadcastArrives(t) \/ SendArrives(t)
          \/ LoadDone(t) \/ AddChatId(t)
          \/ BroadcastPush(t) \/ PushesSettle(t) \/ BroadcastFinish(t)
          \/ SendPush(t)
    \/ PutDone

\* a fresh isolate over the store an earlier one left
InitBot == \E stored \in StoredAtStart : InitWith(stored)

\* webhook requests and sendTradingSignal calls in one isolate, interleaved
\* at their awaits, with the saves they start completing in any order
SpecBot == InitBot /\ [][NextBot]_vars

\* ------------------------------------------- the library functions, called
\* directly
\* entry prices and swing bounds a caller passes (100000 is 100.000)
EntryPrices == {2500, 64000, 100000}
SwingBounds == {<< >>, <<0>>, <<90000>>, <<100000>>, <<110000>>}

\* one call calculateFibonacciTargets(entryPrice, direction, swingHigh, swingLow)
CalculateFibonacciTargets ==
    /\ \E entryPrice \in EntryPrices, direction \in {"long", "short"},
          swingHigh \in SwingBounds, swingLow \in SwingBounds :
        targetsCall' =
            [entryPrice |-> entryPrice, direction |-> direction,
             swingHigh |-> swingHigh, swingLow |-> swingLow,
             targets |-> calculateFibonacciTargets(entryPrice, direction,
                                                   swingHigh, swingLow)]
    /\ UNCHANGED <<isolateVars, detectorVars, workerVars, emaCall, emaFirst, indicatorsCall,
                   fetchCall>>

NextProjector == CalculateFibonacciTargets

\* the target projector called on its own
SpecProjector == Init /\ [][NextProjector]_vars

\* price arrays and periods a caller passes to calculateEMA: the first n
\* prices of a level, a rising and an alternating series (100000 is 100.000)
Patterns == {"level", "rising", "alternating"}
PatternPrice(pattern, i) ==
    CASE pattern = "level" -> 100000
      [] pattern = "rising" -> 100000 + 5000 * i
      [] pattern = "alternating" -> IF i % 2 = 1 THEN 110000 ELSE 100000
PriceArrays ==
    {[i \in 1..n |-> PatternPrice(pattern, i)] : pattern \in Patterns, n \in 0..MaxLen}
Periods == (-1)..MaxPeriod

\* what a direct call calculateEMA(prices, period) leaves: the arguments, the
\* array returned, the prices array as it is after the call (the function
\* never writes to it) and whether a call with other arguments was made
\* since the first call of the run
EmaCall(prices, period, between) ==
    [prices |-> prices, period |-> period,
     ema |-> calculateEMA(prices, period),
     pricesAfter |-> prices,
     between |-> between]

\* a call with other arguments than the first call's has been made
OtherCallMade ==
    /\ emaCall # Null
    /\ \/ emaCall.between
       \/ emaCall.prices # emaFirst.prices
       \/ emaCall.period # emaFirst.period

\* variant: the function keeps the last value it computed and starts the
\* next call's recurrence from it
CalculateEMA_SeedsFromLast ==
    /\ \E prices \in PriceArrays, period \in Periods :
        LET c == EmaCall(prices, period, OtherCallMade)
            carried == IF emaCall # Null /\ Len(emaCall.ema) > 0
                          /\ Len(c.ema) > 0
                       THEN [c EXCEPT !.ema[1] = emaCall.ema[Len(emaCall.ema)]]
                       ELSE c
        IN  /\ emaCall' = carried
            /\ emaFirst' = IF emaFirst = Null THEN carried ELSE emaFirst
    /\ UNCHANGED <<isolateVars, detectorVars, workerVars, targetsCall, indicatorsCall,
                   fetchCall>>

\* one call calculateEMA(prices, period)
CalculateEMA ==
    /\ \E prices \in PriceArrays, period \in Periods :
        LET c == EmaCall(prices, period, OtherCallMade)
        IN  /\ emaCall' = c
            /\ emaFirst' = IF emaFirst = Null THEN c ELSE emaFirst
    /\ UNCHANGED <<isolateVars, detectorVars, workerVars, targetsCall, indicatorsCall,
                   fetchCall>>

NextEMA == CalculateEMA

\* the EMA calculator called on its own, call after call
SpecEMA == Init /\ [][NextEMA]_vars

\* one call calculateIndicators(candles)
CalculateIndicators ==
    /\ \E in \in Inputs :
        indicatorsCall' = [in |-> in, indicators |-> IndicatorsOn(in)]
    /\ UNCHANGED <<isolateVars, detectorVars, workerVars, targetsCall, emaCall, emaFirst,
                   fetchCall>>

NextIndicators == CalculateIndicators

\* the snapshot builder called on its own
SpecIndicators == Init /\ [][NextIndicators]_vars

\* ---------------------------------------------------------- fetchKlineData
\* Time is counted in minutes, a Math.random() draw in thousandths.

\* symbols and intervals a caller passes
FetchSymbols == {"BTCUSDT", "XYZUSDT"}
FetchIntervals == {"4h", "2h"}
\* Date.now()
Clock == {29000000}

\* symbol.replace('USDT', '')
ReplaceUSDT(symbol) ==
    CASE symbol = "BTCUSDT" -> "BTC"
      [] symbol = "XYZUSDT" -> "XYZ"
      [] OTHER -> symbol

\* SYMBOL_MAPPING[normalizedSymbol]?.coingecko, a sequence of none or one id
SYMBOL_MAPPING(normalizedSymbol) ==
    CASE normalizedSymbol = "BTC" -> <<"bitcoin">>
      [] normalizedSymbol = "ETH" -> <<"ethereum">>
      [] normalizedSymbol = "BNB" -> <<"binancecoin">>
      [] normalizedSymbol = "SOL" -> <<"solana">>
      [] normalizedSymbol = "ADA" -> <<"cardano">>
      [] normalizedSymbol = "XRP" -> <<"ripple">>
      [] normalizedSymbol = "DOT" -> <<"polkadot">>
      [] normalizedSymbol = "DOGE" -> <<"dogecoin">>
      [] normalizedSymbol = "AVAX" -> <<"avalanche-2">>
      [] normalizedSymbol = "LINK" -> <<"chainlink">>
      [] OTHER -> << >>

getIntervalMs(interval) ==
    CASE interval = "1m" -> 1
      [] interval = "5m" -> 5
      [] interval = "15m" -> 15
      [] interval = "30m" -> 30
      [] interval = "1h" -> 60
      [] interval = "4h" -> 240
      [] interval = "1d" -> 1440
      [] OTHER -> 60

\* a decimal string of a kline, <<whole part, thousandths>>, read by parseFloat
parseFloat(str) == str[1] * 1000 + str[2]

\* the klines of a Binance body: open time and the strings of open, high,
\* low, close and volume
Kline(t, open, high, low, close) ==
    <<t, <<open, 0>>, <<high, 500>>, <<low, 250>>, <<close, 0>>, <<12, 345>>>>
BinanceBodies ==
    {<< >>,
     <<Kline(28999520, 64, 65, 63, 64), Kline(28999760, 64, 66, 64, 65)>>}

\* what the request to Binance comes to: an ok response with a body of
\* klines, an ok response whose body response.json() cannot read, a response
\* that is not ok, a fetch that rejects
BinanceOutcomes ==
    {[kind |-> "ok", body |-> b] : b \in BinanceBodies}
        \cup {[kind |-> k] : k \in {"unreadable", "notOk", "rejected"}}

\* data.map(kline => ({ timestamp, open, high, low, close, volume }))
BinanceCandles(data) ==
    [k \in 1..Len(data) |->
        [timestamp |-> data[k][1],
         open |-> parseFloat(data[k][2]), high |-> parseFloat(data[k][3]),
         low |-> parseFloat(data[k][4]), close |-> parseFloat(data[k][5]),
         volume |-> parseFloat(data[k][6])]]

\* what the request to CoinGecko comes to: an ok response with the prices
\* of some coins, a response that is not ok, a fetch that rejects
CoinGeckoBodies ==
    {{}, {[id |-> "bitcoin", usd |-> 1]}, {[id |-> "bitcoin", usd |-> 64000]},
     {[id |-> "ethereum", usd |-> 3000]}}
CoinGeckoOutcomes ==
    {[kind |-> "ok", body |-> b] : b \in CoinGeckoBodies}
        \cup {[kind |-> k] : k \in {"notOk", "rejected"}}

\* the source was not asked
NotAsked == [kind |-> "notAsked"]
\* the function throws
Thrown == [thrown |-> TRUE]

\* fetchCurrentPrice(coinId): data[coinId]?.usd || 0, or the error rethrown
fetchCurrentPrice(coinId, coingecko) ==
    IF coingecko.kind # "ok" THEN Thrown
    ELSE [thrown |-> FALSE,
          usd |-> IF \E d \in coingecko.body : d.id = coinId
                  THEN (CHOOSE d \in coingecko.body : d.id = coinId).usd
                  ELSE 0]

\* the Math.random() draws of one pass of the loop, in the order drawn: for
\* the open, the close, the high, the low and the volume
Draws == {<<0, 0, 0, 0, 0>>, <<998, 0, 500, 998, 500>>, <<500, 998, 998, 0, 998>>}

\* variant: the loop counts up from 0
MockIndex_CountsUp(limit, k) == k - 1

\* the loop variable i at the k-th pass of for (i = limit - 1; i >= 0; i--)
MockIndex(limit, k) == limit - k

\* the candle the k-th pass of the loop pushes
MockCandle(interval, limit, now, currentPrice, k, draw) ==
    LET i == MockIndex(limit, k)
        open == Mul(currentPrice, One + ((draw[1] - 500) * One) \div 100000)
        close == Mul(currentPrice, One + ((draw[2] - 500) * One) \div 100000)
    IN  [timestamp |-> now - i * getIntervalMs(interval),
         open |-> open,
         high |-> Mul(Max(open, close), One + (draw[3] * One) \div 200000),
         low |-> Mul(Min(open, close), One - (draw[4] * One) \div 200000),
         close |-> close,
         volume |-> 1000000 + draw[5] * 500]

\* mockCandles as the loop leaves it
mockCandles(interval, limit, now, currentPrice, draws) ==
    [k \in 1..limit |-> MockCandle(interval, limit, now, currentPrice, k, draws[k])]

FetchAt(pc) == fetchCall # Null /\ fetchCall.pc = pc

\* a call fetchKlineData(symbol, interval, limit), up to the await of the
\* request to Binance
FetchKlineData ==
    /\ fetchCall = Null \/ FetchAt("done")
    /\ \E symbol \in FetchSymbols, interval \in FetchIntervals, limit \in 0..MaxLimit :
        fetchCall' = [pc |-> "binance", symbol |-> symbol,
                      interval |-> interval, limit |-> limit]
    /\ UNCHANGED <<isolateVars, detectorVars, workerVars, targetsCall, emaCall,
                   emaFirst, indicatorsCall>>

\* the first try block and, when it does not return, the second one up to
\* the await of fetchCurrentPrice; without a CoinGecko id the function throws
BinanceAnswers ==
    /\ FetchAt("binance")
    /\ \E binance \in BinanceOutcomes :
        LET c == [symbol |-> fetchCall.symbol, interval |-> fetchCall.interval,
                  limit |-> fetchCall.limit, binance |-> binance]
        IN  fetchCall' =
                IF binance.kind = "ok"
                THEN c @@ [pc |-> "done", coingecko |-> NotAsked,
                           result |-> [thrown |-> FALSE,
                                       candles |-> BinanceCandles(binance.body)]]
                ELSE IF SYMBOL_MAPPING(ReplaceUSDT(fetchCall.symbol)) = << >>
                THEN c @@ [pc |-> "done", coingecko |-> NotAsked, result |-> Thrown]
                ELSE c @@ [pc |-> "coingecko"]
    /\ UNCHANGED <<isolateVars, detectorVars, workerVars, targetsCall, emaCall,
                   emaFirst, indicatorsCall>>

\* the rest of the second try block: the price, the loop, the return, or
\* the throw at the end when fetchCurrentPrice has thrown
CoinGeckoAnswers ==
    /\ FetchAt("coingecko")
    /\ \E coingecko \in CoinGeckoOutcomes, now \in Clock,
          draws \in [1..fetchCall.limit -> Draws] :
        LET coinId == SYMBOL_MAPPING(ReplaceUSDT(fetchCall.symbol))[1]
            currentPrice == fetchCurrentPrice(coinId, coingecko)
        IN  fetchCall' =
                [symbol |-> fetchCall.symbol, interval |-> fetchCall.interval,
                 limit |-> fetchCall.limit, binance |-> fetchCall.binance,
                 pc |-> "done", coingecko |-> coingecko,
                 result |->
                    IF currentPrice.thrown THEN Thrown
                    ELSE [thrown |-> FALSE,
                          candles |-> mockCandles(fetchCall.interval, fetchCall.limit,
                                                  now, currentPrice.usd, draws)]]
    /\ UNCHANGED <<isolateVars, detectorVars, workerVars, targetsCall, emaCall,
                   emaFirst, indicatorsCall>>

NextFetch == FetchKlineData \/ BinanceAnswers \/ CoinGeckoAnswers

\* the candle source called on its own, call after call
SpecFetch == Init /\ [][NextFetch]_vars

TypeOK ==
    /\ state \in {0, 1}
    /\ longShort \in {0, 1, 2}
    /\ cursor \in 0..Len(ScheduledSymbols)

\* ------------------------------------------------- the latest call, read back
Called == call # Null
Returned == Called /\ call.result # Null
Emitted(type) == Returned /\ call.result.type = type

\* ---------------------------------------------------------------- claims

\* C1: whatever the fields were, a call on a series of at least 676 candles
\* whose EMAs are neither strictly descending nor strictly ascending emits
\* none and leaves state = 0 (not armed) and longShort = 0 (no alignment).
C1_UnorderedResets ==
    (Called /\ UnorderedIn(call.in)) =>
        Emitted("none") /\ state = 0 /\ longShort = 0

\* an armed bullish instance met an unordered snapshot
C1_Witness ==
    Called /\ UnorderedIn(call.in) /\ call.preState = 1 /\ call.preLongShort = 1

\* C2: not armed and strictly bullish: a touch of ema144 with a close at or
\* above ema12 emits long and leaves {bullish, not armed}; a touch alone emits
\* none and arms; no touch emits none and stays not armed.
C2_UnarmedBullish ==
    (Called /\ call.preState = 0 /\ BullishIn(call.in)) =>
        /\ longShort = 1
        /\ (TouchLow(call.in) /\ CloseAbove(call.in)) =>
               (Emitted("long") /\ state = 0)
        /\ (TouchLow(call.in) /\ ~CloseAbove(call.in)) =>
               (Emitted("none") /\ state = 1)
        /\ ~TouchLow(call.in) => (Emitted("none") /\ state = 0)

\* the single-candle trigger fired on an idle instance
C2_Witness ==
    Called /\ call.preState = 0 /\ BullishIn(call.in)
        /\ TouchLow(call.in) /\ CloseAbove(call.in) /\ Emitted("long")

\* a bullish call that touches ema144 and closes below ema12
ArmingCall ==
    Called /\ BullishIn(call.in) /\ TouchLow(call.in) /\ ~CloseAbove(call.in)

\* a bullish call that closes at or above ema12
ConfirmingCall ==
    Called /\ BullishIn(call.in) /\ CloseAbove(call.in)

\* C3: on one instance, a bullish call that touches ema144 and closes below
\* ema12 emits none and ends in {bullish, armed}; the call that follows it,
\* if bullish with a close at or above ema12, emits long and ends in
\* {bullish, not armed}, whatever its low.
C3_ArmThenConfirm ==
    [][ /\ ArmingCall' => (Emitted("none")' /\ state' = 1 /\ longShort' = 1)
        /\ (ArmingCall /\ ConfirmingCall') =>
               (Emitted("long")' /\ state' = 0 /\ longShort' = 1) ]_vars

\* the confirming call came second and did not touch ema144 itself
C3_Witness ==
    ConfirmingCall /\ ~TouchLow(call.in) /\ call.preState = 1
        /\ call.preArmedUnder = 1 /\ Emitted("long")

\* C4: armed and strictly bullish: a close at or above ema12 emits long and
\* clears the flag; otherwise ema12 <= ema144 clears the flag and emits none;
\* otherwise the instance stays armed and emits none.
C4_ArmedBullish ==
    (Called /\ call.preState = 1 /\ BullishIn(call.in)) =>
        LET ind == IndicatorsOn(call.in) IN
        /\ CloseAbove(call.in) => (Emitted("long") /\ state = 0)
        /\ (~CloseAbove(call.in) /\ ind.ema12 <= ind.ema144) =>
               (Emitted("none") /\ state = 0)
        /\ (~CloseAbove(call.in) /\ ind.ema12 > ind.ema144) =>
               (Emitted("none") /\ state = 1)

\* an armed instance kept waiting
C4_Witness ==
    Called /\ call.preState = 1 /\ BullishIn(call.in)
        /\ ~CloseAbove(call.in) /\ Emitted("none") /\ state = 1

\* the input seen upside down: prices negated, high and low exchanged
MirrorCandle(c) ==
    [c EXCEPT !.open = -c.open, !.close = -c.close,
              !.high = -c.low, !.low = -c.high]

MirrorIndicators(ind) ==
    [ema12 |-> -ind.ema12, ema144 |-> -ind.ema144, ema169 |-> -ind.ema169,
     ema576 |-> -ind.ema576, ema676 |-> -ind.ema676]

\* long and short exchanged
MirrorOut(out) ==
    <<IF out[1] = "long" THEN "short"
      ELSE IF out[1] = "short" THEN "long" ELSE out[1], out[2]>>

\* C5: the bearish step is the mirror image of the bullish one: what a call
\* under bearish alignment emits and leaves in the armed flag is what the
\* bullish branch gives for the mirrored candle and snapshot with long read
\* as short, and the other way round.
C5_BearishMirrorsBullish ==
    Returned =>
        LET c == NewestCandle(call.in)
            ind == IndicatorsOn(call.in)
            did == <<call.result.type, state>>
        IN  /\ BearishIn(call.in) =>
                  did = MirrorOut(BullishStep(call.preState, MirrorCandle(c),
                                              MirrorIndicators(ind)))
            /\ BullishIn(call.in) =>
                  did = MirrorOut(BearishStep(call.preState, MirrorCandle(c),
                                              MirrorIndicators(ind)))

\* a bearish call armed the instance on a touch from below
C5_Witness ==
    Returned /\ BearishIn(call.in) /\ call.preState = 0
        /\ TouchHigh(call.in) /\ ~CloseBelow(call.in) /\ state = 1

\* C6: every long is backed by a touch of ema144 under bullish alignment,
\* made by the emitting call or by the call that armed the instance, and
\* every short by a touch under bearish alignment; a flag set under one
\* alignment never confirms a signal of the other direction.
C6_SignalsBacked ==
    /\ Emitted("long") =>
          \/ BullishIn(call.in) /\ TouchLow(call.in)
          \/ call.preState = 1 /\ call.preArmedUnder = 1
    /\ Emitted("short") =>
          \/ BearishIn(call.in) /\ TouchHigh(call.in)
          \/ call.preState = 1 /\ call.preArmedUnder = 2

\* C8: a call on fewer than 676 candles yields no snapshot and no signal and
\* leaves state and longShort as they were.
C8_ShortSeriesNoEffect ==
    (Called /\ ~Sufficient(call.in)) =>
        /\ IndicatorsOn(call.in) = Null
        /\ call.result = Null
        /\ state = call.preState
        /\ longShort = call.preLongShort

\* a short series reached an armed instance
C8_Witness ==
    Called /\ ~Sufficient(call.in) /\ call.preState = 1
        /\ call.preLongShort = 2 /\ state = 1

\* C9: every signal returned carries the newest candle's close and timestamp
\* and the snapshot of the same series, whatever its direction.
C9_SignalCarriesNewest ==
    Returned =>
        /\ call.result.price = NewestCandle(call.in).close
        /\ call.result.timestamp = NewestCandle(call.in).timestamp
        /\ call.result.indicators = IndicatorsOn(call.in)

\* a short confirmed from the armed state, on a candle that opened elsewhere
C9_Witness ==
    Emitted("short") /\ call.preState = 1
        /\ NewestCandle(call.in).open # NewestCandle(call.in).close

\* ------------------------------------------------------- claims, worker
Evaluated == evaluation # Null

\* the pair's evaluation met a bullish series that touches ema144 and closes
\* below ema12: the evaluation that arms a detector
ArmingEvaluation ==
    Evaluated /\ evaluation.fetched # FetchFailed
        /\ evaluation.key[1] \in SupportedSymbols
        /\ BullishIn(evaluation.fetched) /\ TouchLow(evaluation.fetched)
        /\ ~CloseAbove(evaluation.fetched)

\* the pair's evaluation met a bullish series that closes at or above ema12
ConfirmingEvaluation ==
    Evaluated /\ evaluation.fetched # FetchFailed
        /\ evaluation.key[1] \in SupportedSymbols
        /\ BullishIn(evaluation.fetched) /\ CloseAbove(evaluation.fetched)

\* C7: the detector state of a (symbol, timeframe) pair lives across the
\* worker's evaluations: when one evaluation of a pair arms the detector,
\* the next evaluation of the same pair, bullish with a close at or above
\* ema12, produces a long TradingSignal, also when its low stays above
\* ema144.
C7_ArmedAcrossEvaluations ==
    [][ (ArmingEvaluation /\ ConfirmingEvaluation'
            /\ evaluation'.key = evaluation.key) =>
           (evaluation'.signal # Null /\ evaluation'.signal.direction = "long")
      ]_vars

\* the detector's result asks for a trading signal
DetectedDirection ==
    Evaluated /\ evaluation.vegasSignal # Null
        /\ evaluation.vegasSignal.type \in {"long", "short"}

\* C10: direction none never reaches projection or delivery: analyzeSymbol
\* returns a TradingSignal, calls the target projector, and the handler
\* calls sendTradingSignal, only when the detector emitted long or short.
C10_NoneNeverDelivered ==
    Evaluated =>
        /\ evaluation.signal # Null =>
              (DetectedDirection
                  /\ evaluation.signal.direction = evaluation.vegasSignal.type)
        /\ evaluation.projection # Null => DetectedDirection
        /\ evaluation.sent # Null =>
              (DetectedDirection
                  /\ evaluation.sent.signal.direction \in {"long", "short"})

\* a scheduled run whose detector emitted none: nothing projected, nothing sent
C10_Witness ==
    Evaluated /\ evaluation.by = "scheduled"
        /\ evaluation.vegasSignal # Null
        /\ evaluation.vegasSignal.type = "none"
        /\ evaluation.projection = Null /\ evaluation.sent = Null

\* ------------------------------------------- the latest projector call, read back
Projected == targetsCall # Null
\* how far target1 lies from the entry price
Reach == Abs(targetsCall.targets.target1 - targetsCall.entryPrice)
\* +1 when the targets lie above the entry, -1 when below
Side == IF targetsCall.direction = "long" THEN 1 ELSE -1

\* C11: for every entry price > 0 and range, calculateFibonacciTargets
\* returns entry + range * 1.0, entry + range * 1.618 and entry + range * 2.0
\* for long and entry - range * 1.0, entry - range * 1.618 and
\* entry - range * 2.0 for short; entry 100 with swing 110/90 gives 120,
\* 132.36, 140 for long and 80, 67.64, 60 for short.
C11_TargetsFromRange ==
    Projected =>
        /\ targetsCall.targets =
              [target1 |-> targetsCall.entryPrice + Side * Reach,
               target2 |-> targetsCall.entryPrice + Side * ((Reach * 1618) \div 1000),
               target3 |-> targetsCall.entryPrice + Side * (Reach * 2)]
        /\ (targetsCall.entryPrice = 100000 /\ targetsCall.swingHigh = <<110000>>
                /\ targetsCall.swingLow = <<90000>>) =>
              targetsCall.targets =
                  IF targetsCall.direction = "long"
                  THEN [target1 |-> 120000, target2 |-> 132360, target3 |-> 140000]
                  ELSE [target1 |-> 80000, target2 |-> 67640, target3 |-> 60000]

\* the short projection of entry 100 over the swing 110/90
C11_Witness ==
    Projected /\ targetsCall.direction = "short"
        /\ targetsCall.entryPrice = 100000
        /\ targetsCall.swingHigh = <<110000>> /\ targetsCall.swingLow = <<90000>>
        /\ targetsCall.targets.target2 = 67640

\* C12: the range is |swingHigh - swingLow| whenever both swing bounds are
\* supplied, whatever their values (a bound equal to 0 and equal bounds
\* included), and entryPrice * 0.05 only when a bound is not supplied.
C12_RangeFromSwing ==
    Projected =>
        IF targetsCall.swingHigh # << >> /\ targetsCall.swingLow # << >>
        THEN Reach = Abs(targetsCall.swingHigh[1] - targetsCall.swingLow[1])
        ELSE Reach = (targetsCall.entryPrice * 5) \div 100

\* ------------------------------------------- the latest calculateEMA call, read back
EmaCalled == emaCall # Null
\* a call with at least one price and a period > 0
Regular == EmaCalled /\ Len(emaCall.prices) >= 1 /\ emaCall.period > 0
\* all prices of the call are one value
ConstantPrices ==
    \A i \in 1..Len(emaCall.prices) : emaCall.prices[i] = emaCall.prices[1]

\* prices[1] + ... + prices[n]
RECURSIVE Total(_, _)
Total(prices, n) == IF n = 0 THEN 0 ELSE Total(prices, n - 1) + prices[n]

\* C13: for N >= 1 prices and a period P > 0 calculateEMA returns N values;
\* the first is the mean of the first min(P, N) prices and every later one
\* is price[i] * k + ema[i-1] * (1 - k) with k = 2 / (P + 1).
C13_SeedAndRecurrence ==
    Regular =>
        LET prices == emaCall.prices
            ema == emaCall.ema
            P == emaCall.period
            k == Multiplier(P)
            window == Min(P, Len(prices))
        IN  /\ Len(ema) = Len(prices)
            /\ k * (P + 1) <= 2 * One /\ 2 * One < (k + 1) * (P + 1)
            /\ ema[1] = Total(prices, window) \div window
            /\ \A i \in 2..Len(prices) :
                  ema[i] = Mul(prices[i], k) + Mul(ema[i - 1], One - k)

\* the period exceeds the number of prices, which are not all equal
C13_Witness ==
    Regular /\ emaCall.period > Len(emaCall.prices) /\ Len(emaCall.prices) >= 2
        /\ ~ConstantPrices /\ Len(emaCall.ema) = Len(emaCall.prices)

\* C14: for every period P > 0 and every constant price sequence of value V,
\* every element of calculateEMA's output equals V.
C14_ConstantFixedPoint ==
    (Regular /\ ConstantPrices) =>
        \A i \in 1..Len(emaCall.prices) : emaCall.ema[i] = emaCall.prices[1]

\* C15: for any period P > 0 and any index i >= 1, ema[i] lies between
\* price[i] and ema[i-1], never outside their interval, and is price[i]
\* when P = 1.
C15_ConvexCombination ==
    Regular =>
        \A i \in 2..Len(emaCall.prices) :
            /\ Min(emaCall.prices[i], emaCall.ema[i - 1]) <= emaCall.ema[i]
            /\ emaCall.ema[i] <= Max(emaCall.prices[i], emaCall.ema[i - 1])
            /\ emaCall.period = 1 => emaCall.ema[i] = emaCall.prices[i]

\* C16: calculateEMA called with no prices or with a period <= 0 returns the
\* empty sequence.
C16_DegenerateEmpty ==
    (EmaCalled /\ (Len(emaCall.prices) = 0 \/ emaCall.period <= 0)) =>
        emaCall.ema = << >>

\* prices were given, the period was not positive
C16_Witness ==
    EmaCalled /\ Len(emaCall.prices) = MaxLen /\ emaCall.period <= 0
        /\ emaCall.ema = << >>

Closes(candles) == [i \in 1..Len(candles) |-> candles[i].close]
\* the last element of calculateEMA over the closing prices
LastOfEMA(candles, period) ==
    calculateEMA(Closes(candles), period)[Len(candles)]

\* C18: for a series of at least 676 candles calculateIndicators returns a
\* snapshot whose ema12, ema144, ema169, ema576 and ema676 are the last
\* elements of calculateEMA over the closing prices with periods 12, 144,
\* 169, 576 and 676; no other field of a candle enters.
C18_SnapshotFromCloses ==
    (indicatorsCall # Null /\ indicatorsCall.in.n >= 676) =>
        indicatorsCall.indicators =
            [ema12  |-> LastOfEMA(Candles(indicatorsCall.in), 12),
             ema144 |-> LastOfEMA(Candles(indicatorsCall.in), 144),
             ema169 |-> LastOfEMA(Candles(indicatorsCall.in), 169),
             ema576 |-> LastOfEMA(Candles(indicatorsCall.in), 576),
             ema676 |-> LastOfEMA(Candles(indicatorsCall.in), 676)]

\* a series of more than 676 candles whose newest candle has a wick above
\* and closes off its open
C18_Witness ==
    indicatorsCall # Null /\ indicatorsCall.in.n > 676
        /\ indicatorsCall.in.wick = "high" /\ indicatorsCall.in.off # 0
        /\ indicatorsCall.indicators # Null

\* the call was on exactly 676 candles that all close at one price
FlatCall ==
    Called /\ call.in.shape = "flat" /\ call.in.n = 676 /\ call.in.off = 0

\* C19: for a series of exactly 676 candles that all have the same close, the
\* snapshot has all five EMA values equal to that close, the alignment is
\* none, and the detector emits none from any prior state and ends not armed
\* with no alignment.
C19_FlatSeriesNone ==
    FlatCall =>
        /\ Emitted("none")
        /\ \A v \in {call.result.indicators.ema12, call.result.indicators.ema144,
                      call.result.indicators.ema169, call.result.indicators.ema576,
                      call.result.indicators.ema676} :
              v = NewestCandle(call.in).close
        /\ longShort = 0
        /\ state = 0

\* C20: evaluations for different keys are independent: a call on one
\* detector instance leaves the fields of every other instance unchanged,
\* and under any interleaving each instance emits what it emits when its
\* calls are the only ones made.
C20_InstancesIndependent ==
    /\ state = alone.state /\ longShort = alone.longShort
    /\ Called => call.result = call.aloneResult

\* the first instance confirms a long it armed for while the second
\* instance, called in between, is in bearish alignment
C20_Witness ==
    Emitted("long") /\ call.preState = 1 /\ other.longShort = 2 /\ other.state = 1

\* C25: whatever calls were made, on long or short series, from the fields
\* the constructor leaves: state = 1 (armed) implies longShort is 1 (bullish)
\* or 2 (bearish); the instance is never armed without an alignment.
C25_ArmedHasAlignment ==
    state = 1 => longShort \in {1, 2}

\* an armed bearish instance that a short series has just left untouched
C25_Witness ==
    Called /\ ~Sufficient(call.in) /\ call.preState = 1 /\ state = 1
        /\ longShort = 2

\* C26: whatever the fields were before the call: long is returned only on a
\* strictly bullish snapshot with the newest close at or above ema12, short
\* only on a strictly bearish one with the newest close at or below ema12,
\* and a call that returned long or short leaves state = 0.
C26_EmissionGuards ==
    /\ Emitted("long") =>
          (BullishIn(call.in) /\ CloseAbove(call.in) /\ state = 0)
    /\ Emitted("short") =>
          (BearishIn(call.in) /\ CloseBelow(call.in) /\ state = 0)

\* a short confirmed by an armed instance on a candle below ema144
C26_Witness ==
    Emitted("short") /\ call.preState = 1 /\ ~TouchHigh(call.in)
        /\ state = 0

\* C27: a call that finds state = 1 and leaves state = 0 returned long or
\* short or found no alignment; an armed instance that meets a strictly
\* ordered snapshot without the confirming close returns none and stays
\* armed, as it does on a short series.
C27_ArmedUntilConfirmedOrUnordered ==
    (Called /\ call.preState = 1) =>
        /\ state = 0 =>
              (Emitted("long") \/ Emitted("short") \/ longShort = 0)
        /\ (BullishIn(call.in) /\ ~CloseAbove(call.in)) =>
              (Emitted("none") /\ state = 1)
        /\ (BearishIn(call.in) /\ ~CloseBelow(call.in)) =>
              (Emitted("none") /\ state = 1)
        /\ ~Sufficient(call.in) => state = 1

\* an instance armed under bearish alignment met a bullish snapshot whose
\* close stayed below ema12 and kept waiting
C27_Witness ==
    Called /\ call.preState = 1 /\ call.preLongShort = 2
        /\ BullishIn(call.in) /\ ~CloseAbove(call.in) /\ state = 1

\* the candles candles.slice(-50) keeps of an input series
RecentCandles(in) ==
    {TrendCandle(in.shape, i) :
        i \in Max(1, in.n - SwingWindow + 1)..(in.n - 1)}
      \cup {NewestCandle(in)}

\* C24: every TradingSignal analyzeSymbol builds has the detector's signal
\* type as direction, the newest candle's close as entryPrice and its
\* timestamp as timestamp, leverage 10 (no caller supplies one), and as
\* targets calculateFibonacciTargets(entryPrice, direction, the highest high,
\* the lowest low) of the last 50 candles of the series.
C24_SignalFields ==
    (Evaluated /\ evaluation.signal # Null) =>
        LET in == evaluation.fetched
            recent == RecentCandles(in)
            highest == CHOOSE c \in recent : \A d \in recent : d.high <= c.high
            lowest == CHOOSE c \in recent : \A d \in recent : c.low <= d.low
            signal == evaluation.signal
        IN  /\ signal.direction = evaluation.vegasSignal.type
            /\ signal.entryPrice = NewestCandle(in).close
            /\ signal.timestamp = NewestCandle(in).timestamp
            /\ signal.leverage = 10
            /\ signal.targets =
                   calculateFibonacciTargets(
                       signal.entryPrice, signal.direction,
                       <<highest.high>>, <<lowest.low>>)

\* a long signal on a rising series, whose lowest low lies before the last
\* 50 candles
C24_Witness ==
    Evaluated /\ evaluation.signal # Null
        /\ evaluation.signal.direction = "long"
        /\ evaluation.fetched.shape = "up"
        /\ Cardinality(RecentCandles(evaluation.fetched)) = SwingWindow
        /\ TrendCandle("up", 1).low
               < evaluation.projection.swingLow[1]

\* C23: a scheduled run passes BTC, ETH, BNB and SOL to analyzeSymbol, each
\* once and in that order, whatever failed on the way: the symbols analyzed
\* so far are the first ones of the list, the run ends only after all four,
\* and every pass that produced a signal called sendTradingSignal with it for
\* all chats and returned normally.
C23_ScheduledRun ==
    /\ run.symbols = SubSeq(ScheduledSymbols, 1, Len(run.symbols))
    /\ cursor > 0 => Len(run.symbols) = cursor - 1
    /\ cursor = 0 => Len(run.symbols) \in {0, Len(ScheduledSymbols)}
    /\ (Evaluated /\ evaluation.by = "scheduled" /\ Len(run.symbols) > 0) =>
          /\ evaluation.key[1] = run.symbols[Len(run.symbols)]
          /\ evaluation.signal # Null =>
                (/\ evaluation.sent # Null
                 /\ evaluation.sent.signal = evaluation.signal
                 /\ evaluation.sent.to = Absent
                 /\ evaluation.sent.ok)

\* a run that met a failure on an earlier symbol and went on to deliver a
\* signal for SOL
C23_Witness ==
    /\ cursor = 0 /\ run.symbols = ScheduledSymbols /\ run.failed
    /\ Evaluated /\ evaluation.by = "scheduled"
    /\ evaluation.signal # Null /\ ~PassFailed(evaluation)

\* the evaluations whose analyzeSignal call has run
Analyses == {e \in EvalSlots : evals[e].pc = "done"}

Handling == {t \in BotSlots : tasks[t].kind = "webhook"
                                /\ tasks[t].pc \in {"loading", "add"}}
\* the webhook requests answered without handling their event
Refused == {t \in BotSlots : tasks[t].kind = "webhook"
                               /\ tasks[t].pc = "answered"
                               /\ tasks[t].status # 200}

\* C22: no event of a POST /webhook is handled unless the x-line-signature
\* header is present and equals the HMAC-SHA256 signature of the body under
\* the channel secret; a request without the header is answered 400, one
\* whose header does not match 403.
C22_SignatureVerified ==
    /\ \A t \in Handling :
          tasks[t].signature = Hmac(EventBody, ChannelSecret)
    /\ \A t \in Refused :
          tasks[t].status = IF tasks[t].signature = NoHeader THEN 400 ELSE 403

\* the sendTradingSignal calls to all chats, by the place they have reached
Broadcasts(pc) == {t \in BotSlots : tasks[t].kind = "broadcast"
                                       /\ tasks[t].pc = pc}
\* the sendTradingSignal calls to one chat that are about to push
Sends == {t \in BotSlots : tasks[t].kind = "send" /\ tasks[t].pc = "push"}

\* C28: sendTradingSignal to all chats pushes once to every chat id the
\* active set holds when it pushes; whichever pushes are rejected, the call
\* goes on and returns, and its last step removes from the set exactly the
\* ids whose push was rejected.  sendTradingSignal to one chat pushes to
\* that chat only, leaves the set as it is, and throws when, and only when,
\* the push is rejected.
C28_SendTradingSignal ==
    [][ /\ \A t \in Broadcasts("push") :
              tasks'[t] # tasks[t] =>
                  (/\ tasks'[t].pc = "pushing"
                   /\ tasks'[t].targets = activeChatIds
                   /\ activeChatIds' = activeChatIds)
        /\ \A t \in Broadcasts("pushing") :
              tasks'[t] # tasks[t] =>
                  (/\ tasks'[t].pc = "settled"
                   /\ tasks'[t].failedChatIds \subseteq tasks[t].targets
                   /\ activeChatIds' = activeChatIds)
        /\ \A t \in Broadcasts("settled") :
              tasks'[t] # tasks[t] =>
                  (/\ tasks'[t].pc = "returned"
                   /\ activeChatIds' = activeChatIds \ tasks[t].failedChatIds)
        /\ \A t \in Sends :
              tasks'[t] # tasks[t] =>
                  (/\ tasks'[t].pushed = {tasks[t].to}
                   /\ activeChatIds' = activeChatIds
                   /\ tasks'[t].pc = IF tasks'[t].ok THEN "returned"
                                     ELSE "threw")
      ]_vars

\* a broadcast to two chats has returned: the push to G1 was rejected and G1
\* is gone, U1 is still in the set; beside it a send to one chat has thrown
C28_Witness ==
    \E t, u \in BotSlots :
        /\ tasks[t].kind = "broadcast" /\ tasks[t].pc = "returned"
        /\ tasks[t].removed = {"G1"}
        /\ activeChatIds = {"U1"}
        /\ tasks[u].kind = "send" /\ tasks[u].pc = "threw"

\* C29: a chat id that addActiveChatId has added stays in the in-memory set
\* until a push of a broadcast to it is rejected, whatever loadChatIds calls
\* complete in between.
C29_AddedStays ==
    added \subseteq activeChatIds

\* the list the store holds, none counting as the empty list
Stored == IF kv = NoValue THEN {} ELSE kv[1]

\* C30: once the cache is loaded, whenever no kv.put of saveChatIds is under
\* way and no invocation is, the list stored under 'activeChatIds' is the
\* in-memory set, in whatever order the puts completed (no put fails in the
\* model).
C30_StoreConverges ==
    (cacheLoaded /\ puts = {} /\ \A t \in BotSlots : Free(t)) =>
        Stored = activeChatIds

\* ------------------------------------------- the latest fetchKlineData call, read back
Fetched == FetchAt("done")
BinanceFailed == fetchCall.binance.kind # "ok"
CoinGeckoFailed == fetchCall.coingecko.kind \in {"notOk", "rejected", "notAsked"}
Generated == BinanceFailed /\ ~fetchCall.result.thrown

\* C31: fetchKlineData returns the candles of the Binance body when the
\* request to Binance ends in an ok response that can be read; it returns a
\* generated series only when that request has failed, and throws only when
\* the second source has failed as well (a symbol without a CoinGecko id has
\* no second source).  A generated series holds exactly limit candles,
\* oldest first with strictly increasing timestamps, and each candle has
\* low <= open, close <= high.
C31_FetchOrder ==
    Fetched =>
        LET r == fetchCall.result IN
        /\ ~BinanceFailed =>
                ~r.thrown /\ r.candles = BinanceCandles(fetchCall.binance.body)
        /\ r.thrown <=> BinanceFailed /\ CoinGeckoFailed
        /\ Generated =>
            /\ fetchCall.coingecko.kind = "ok"
            /\ Len(r.candles) = fetchCall.limit
            /\ \A k \in 1..(Len(r.candles) - 1) :
                    r.candles[k].timestamp < r.candles[k + 1].timestamp
            /\ \A k \in 1..Len(r.candles) :
                    /\ r.candles[k].low <= Min(r.candles[k].open, r.candles[k].close)
                    /\ Max(r.candles[k].open, r.candles[k].close) <= r.candles[k].high

\* a generated series of two candles with a high above and a low below the
\* bodies
C31_FetchOrder_Witness ==
    /\ Fetched
    /\ Generated
    /\ Len(fetchCall.result.candles) = 2
    /\ fetchCall.result.candles[1].low < fetchCall.result.candles[1].open
    /\ fetchCall.result.candles[2].close < fetchCall.result.candles[2].high

\* the evaluation ran into a failure inside analyzeSymbol: a symbol that is
\* no key of SYMBOL_MAPPING or a fetchKlineData that threw
FailedEvaluation ==
    Evaluated
        /\ (evaluation.key[1] \notin SupportedSymbols
                \/ evaluation.fetched = FetchFailed)

\* C32: analyzeSymbol returns null for an unsupported symbol and for a failed
\* candle fetch, as it does when the detector found no direction: nothing is
\* projected or sent, and /analyze answers every evaluation that returned
\* null, failed or not, with success false and status 200.
C32_FailureIsNoSignal ==
    Evaluated =>
        /\ FailedEvaluation =>
                /\ evaluation.signal = Null
                /\ evaluation.projection = Null
                /\ evaluation.sent = Null
        /\ (evaluation.by = "analyze" /\ evaluation.signal = Null) =>
                evaluation.response = [status |-> 200, success |-> FALSE]

\* an /analyze request for a supported symbol whose candle fetch failed,
\* answered like one without a signal
C32_Witness ==
    FailedEvaluation
        /\ evaluation.by = "analyze"
        /\ evaluation.key[1] \in SupportedSymbols
        /\ evaluation.fetched = FetchFailed
        /\ evaluation.response = [status |-> 200, success |-> FALSE]

====
